---- MODULE Spec2Model ----
(***************************************************************************)
(* Particle soup (src/src/soup.cpp, src/include/soup.hpp): the particle    *)
(* store, initSimulation, updateSimulation and the frame loop of main.     *)
(*                                                                         *)
(* The program computes in IEEE-754 single precision.  The model keeps the *)
(* rounding: a float is a pair <<m, e>> that stands for m * 2^e, with      *)
(* 2^(Precision-1) <= |m| < 2^Precision (or <<0, 0>> for zero), and every  *)
(* arithmetic operator rounds its exact result to nearest, ties to even,   *)
(* as the hardware does.  Precision is smaller than the 24 bits of a C++   *)
(* float so that every product of significands fits a 32-bit integer; the  *)
(* exponent is unbounded, so overflow, subnormals, infinities and NaN are  *)
(* not modelled (no finite input of the modelled runs gets near them).     *)
(***************************************************************************)
EXTENDS Integers, Sequences, FiniteSets, TLC

\* significand bits of the modelled float (24 in the program)
Precision == 11

----------------------------------------------------------------------------
\* Single-precision arithmetic, rounded to Precision bits

Abs(n) == IF n < 0 THEN -n ELSE n

Sgn(n) == IF n < 0 THEN -1 ELSE IF n > 0 THEN 1 ELSE 0

Pow2(k) == 2^k

RECURSIVE BitLen(_)
BitLen(n) == IF n = 0 THEN 0 ELSE 1 + BitLen(n \div 2)

FZero == <<0, 0>>

\* s * (n + d) * 2^e rounded to nearest-even, 0 <= d < 1 and sticky <=> d > 0;
\* a caller that passes sticky passes n with at least Precision + 2 bits
Rnd(s, n, e, sticky) ==
    IF n = 0 THEN FZero
    ELSE LET k == BitLen(n) IN
         IF k <= Precision
         THEN <<s * n * Pow2(Precision - k), e - (Precision - k)>>
         ELSE LET sh   == k - Precision
                  q    == n \div Pow2(sh)
                  r    == n % Pow2(sh)
                  half == Pow2(sh - 1)
                  up   == r > half \/ (r = half /\ (sticky \/ q % 2 = 1))
                  m    == IF up THEN q + 1 ELSE q
              IN IF m = Pow2(Precision)
                 THEN <<s * Pow2(Precision - 1), e + sh + 1>>
                 ELSE <<s * m, e + sh>>

\* static_cast<float>(int)
FInt(i) == Rnd(Sgn(i), Abs(i), 0, FALSE)

FNeg(x) == <<-x[1], x[2]>>

FAbs(x) == <<Abs(x[1]), x[2]>>

FAdd(x, y) ==
    IF x[1] = 0 THEN y
    ELSE IF y[1] = 0 THEN x
    ELSE LET a == IF x[2] >= y[2] THEN x ELSE y
             b == IF x[2] >= y[2] THEN y ELSE x
             d == a[2] - b[2]
         IN IF d >= Precision + 2 THEN a
            ELSE LET n == a[1] * Pow2(d) + b[1]
                 IN Rnd(Sgn(n), Abs(n), b[2], FALSE)

FSub(x, y) == FAdd(x, FNeg(y))

FMul(x, y) ==
    LET n == x[1] * y[1]
    IN Rnd(Sgn(n), Abs(n), x[2] + y[2], FALSE)

FDiv(x, y) ==
    IF x[1] = 0 THEN FZero
    ELSE LET a == Abs(x[1]) * Pow2(Precision + 1)
             b == Abs(y[1])
         IN Rnd(Sgn(x[1]) * Sgn(y[1]), a \div b, x[2] - y[2] - (Precision + 1),
                a % b # 0)

\* floor(sqrt(n)), found bit by bit from bit b down
RECURSIVE ISqrt(_, _, _)
ISqrt(n, r, b) ==
    IF b < 0 THEN r
    ELSE LET t == r + Pow2(b)
         IN ISqrt(n, IF t * t <= n THEN t ELSE r, b - 1)

FSqrt(x) ==
    IF x[1] = 0 THEN FZero
    ELSE LET s == IF (x[2] - (Precision + 1)) % 2 = 0
                  THEN Precision + 1 ELSE Precision + 2
             n == x[1] * Pow2(s)
             r == ISqrt(n, 0, Precision + 1)
         IN Rnd(1, r, (x[2] - s) \div 2, r * r # n)

\* x < y, exactly
FLt(x, y) ==
    IF Sgn(x[1]) # Sgn(y[1]) THEN Sgn(x[1]) < Sgn(y[1])
    ELSE IF x[1] = 0 THEN FALSE
    ELSE IF x[1] > 0 THEN x[2] < y[2] \/ (x[2] = y[2] /\ x[1] < y[1])
    ELSE x[2] > y[2] \/ (x[2] = y[2] /\ x[1] < y[1])

FLe(x, y) == ~FLt(y, x)

\* Eigen's max(a, b) and min(a, b) on finite values
FMax(x, y) == IF FLt(x, y) THEN y ELSE x

FMin(x, y) == IF FLt(y, x) THEN y ELSE x

\* std::floor
FFloor(x) ==
    IF x[2] >= 0 THEN x
    ELSE IF -x[2] > Precision THEN (IF x[1] >= 0 THEN FZero ELSE FInt(-1))
    ELSE FInt(x[1] \div Pow2(-x[2]))

\* std::round: to nearest integer, halves away from zero
FRound(x) ==
    IF x[2] >= 0 THEN x
    ELSE IF -x[2] > Precision + 1 THEN FZero
    ELSE FInt(Sgn(x[1]) * ((Abs(x[1]) + Pow2(-x[2] - 1)) \div Pow2(-x[2])))

\* the bits of p / q, by long division, until acc holds Precision + 2 of them
RECURSIVE DivBits(_, _, _, _)
DivBits(r, q, acc, e) ==
    IF acc >= Pow2(Precision + 1) THEN <<acc, e, r # 0>>
    ELSE DivBits((2 * r) % q, q, 2 * acc + (2 * r) \div q, e - 1)

\* the float literal nearest to p / q (p >= 0, q > 0), as the compiler rounds
\* a decimal literal such as 0.035f
FLit(p, q) ==
    IF p = 0 THEN FZero
    ELSE LET d == DivBits(p % q, q, p \div q, 0)
         IN Rnd(1, d[1], d[2], d[3])

\* bool.cast<float>()
FBool(b) == IF b THEN FInt(1) ELSE FZero

----------------------------------------------------------------------------
\* Configuration (src/include/soup.hpp)

numSpecies == 3

\* particles per species (500 in the program)
perSpecies == 2

numParticles == numSpecies * perSpecies

rMin == FInt(15)

rMax == FInt(200)

friction == FLit(35, 1000)

forceScale == FInt(25)

repulsionScale == FInt(250)

maxSpeed == FInt(300)

hunt == FLit(75, 100)

flee == FNeg(FLit(25, 100))

self == FInt(1)

\* forceMatrix[i][j], species counted from 0
forceMatrix ==
    [i \in 0..(numSpecies - 1) |->
        [j \in 0..(numSpecies - 1) |->
            << <<self, hunt, flee>>,
               <<flee, self, hunt>>,
               <<hunt, flee, self>> >>[i + 1][j + 1]]]

\* the literal 1e-6f
Epsilon == FLit(1, 1000000)

FOne == FInt(1)

----------------------------------------------------------------------------
\* updateSimulation, the constants computed before the loop

beta == FDiv(rMin, rMax)

inverseBeta == FDiv(FOne, beta)

triangleDenominator == FSub(FOne, beta)

rMaxSquared == FMul(rMax, rMax)

\* updateSimulation, the force of one neighbour j on particle i

\* the wrap with floor in place of round
FloorDelta(delta, worldSize) ==
    FSub(delta, FMul(FFloor(FDiv(delta, worldSize)), worldSize))

\* delta -= round(delta / worldSize) * worldSize
WrapDelta(delta, worldSize) ==
    FSub(delta, FMul(FRound(FDiv(delta, worldSize)), worldSize))

DistanceSquared(deltaX, deltaY) ==
    FAdd(FMul(deltaX, deltaX), FMul(deltaY, deltaY))

Distance(distanceSquared) == FMax(FSqrt(distanceSquared), Epsilon)

ActiveMask(distanceSquared) ==
    FBool(FLt(distanceSquared, rMaxSquared) /\ FLt(Epsilon, distanceSquared))

InnerMask(normalizedDistance) == FBool(FLt(normalizedDistance, beta))

RepulsionForce(normalizedDistance) ==
    FMul(FSub(FMul(normalizedDistance, inverseBeta), FOne), repulsionScale)

\* the outer mask without its lower bound
WithinRangeMask(normalizedDistance) == FBool(FLt(normalizedDistance, FOne))

OuterMask(normalizedDistance) ==
    FBool(FLe(beta, normalizedDistance) /\ FLt(normalizedDistance, FOne))

\* the matrix read with its indices swapped
TransposedValue(si, sj) == FMul(forceMatrix[sj][si], forceScale)

MatrixValue(si, sj) == FMul(forceMatrix[si][sj], forceScale)

\* the wave without the division by triangleDenominator
UnscaledWave(normalizedDistance) ==
    FSub(FOne,
         FAbs(FSub(FAdd(FOne, beta), FMul(FInt(2), normalizedDistance))))

\* the wave without the absolute value: a ramp
RampWave(normalizedDistance) ==
    FSub(FOne,
         FDiv(FSub(FAdd(FOne, beta), FMul(FInt(2), normalizedDistance)),
              triangleDenominator))

TriangleWave(normalizedDistance) ==
    FSub(FOne,
         FDiv(FAbs(FSub(FAdd(FOne, beta), FMul(FInt(2), normalizedDistance))),
              triangleDenominator))

\* the zones without the active mask
UnmaskedForce(activeMask, innerMask, repulsionForce, outerMask, interactionForce) ==
    FAdd(FMul(innerMask, repulsionForce), FMul(outerMask, interactionForce))

TotalForce(activeMask, innerMask, repulsionForce, outerMask, interactionForce) ==
    FMul(activeMask,
         FAdd(FMul(innerMask, repulsionForce), FMul(outerMask, interactionForce)))

\* every array of the loop body, at index j, for particle i
Neighbor(deltaX, deltaY, si, sj) ==
    LET distanceSquared    == DistanceSquared(deltaX, deltaY)
        distance           == Distance(distanceSquared)
        normalizedDistance == FDiv(distance, rMax)
        activeMask         == ActiveMask(distanceSquared)
        innerMask          == InnerMask(normalizedDistance)
        repulsionForce     == RepulsionForce(normalizedDistance)
        outerMask          == OuterMask(normalizedDistance)
        matrixValues       == MatrixValue(si, sj)
        triangleWave       == TriangleWave(normalizedDistance)
        interactionForce   == FMul(matrixValues, triangleWave)
    IN [deltaX             |-> deltaX,
        deltaY             |-> deltaY,
        distanceSquared    |-> distanceSquared,
        distance           |-> distance,
        inverseDistance    |-> FDiv(FOne, distance),
        normalizedDistance |-> normalizedDistance,
        activeMask         |-> activeMask,
        innerMask          |-> innerMask,
        repulsionForce     |-> repulsionForce,
        outerMask          |-> outerMask,
        matrixValues       |-> matrixValues,
        triangleWave       |-> triangleWave,
        interactionForce   |-> interactionForce,
        totalForce         |-> TotalForce(activeMask, innerMask, repulsionForce,
                                          outerMask, interactionForce)]

\* An array of the program is a sequence here: entry k is the element of
\* index k - 1.

\* the array of the entries f[1], ..., f[n], each computed once
RECURSIVE Array(_, _)
Array(f, n) == IF n = 0 THEN <<>> ELSE Append(Array(f, n - 1), f[n])

\* the body of the loop over i: the arrays of particle i, one entry per j
Row(i, pX, pY, sp, screenW, screenH) ==
    Array([j \in 1..Len(pX) |->
             Neighbor(WrapDelta(FSub(pX[j], pX[i]), screenW),
                      WrapDelta(FSub(pY[j], pY[i]), screenH),
                      sp[i], sp[j])],
          Len(pX))

\* the loop over i: the arrays of every particle i, from the positions at entry
Neighbors(pX, pY, sp, screenW, screenH) ==
    Array([i \in 1..Len(pX) |-> Row(i, pX, pY, sp, screenW, screenH)],
          Len(pX))

\* (totalForce * delta * inverseDistance).sum() over the entries 1..j
RECURSIVE ForceSum(_, _, _)
ForceSum(row, axis, j) ==
    IF j = 0 THEN FZero
    ELSE FAdd(ForceSum(row, axis, j - 1),
              FMul(FMul(row[j].totalForce,
                        IF axis = "x" THEN row[j].deltaX ELSE row[j].deltaY),
                   row[j].inverseDistance))

\* forceX or forceY, after the loop over i
Forces(neighbors, axis) ==
    Array([i \in 1..Len(neighbors) |->
             ForceSum(neighbors[i], axis, Len(neighbors))],
          Len(neighbors))

\* updateSimulation, the integration of one particle

\* friction taken per second: vel * (1 - friction * deltaTime) + force * deltaTime
FrictionPerSecond(vel, force, dt) ==
    FAdd(FMul(vel, FSub(FOne, FMul(friction, dt))), FMul(force, dt))

\* vel = vel * (1 - friction) + force * deltaTime
Accelerate(vel, force, dt) ==
    FAdd(FMul(vel, FSub(FOne, friction)), FMul(force, dt))

Speed(vX, vY) == FMax(FSqrt(FAdd(FMul(vX, vX), FMul(vY, vY))), Epsilon)

\* no cap
Uncapped(vX, vY) == FOne

\* every speed scaled to maxSpeed, the slow ones too
ScaleToMaxSpeed(vX, vY) == FDiv(maxSpeed, Speed(vX, vY))

SpeedScale(vX, vY) == FMin(FDiv(maxSpeed, Speed(vX, vY)), FOne)

\* pos -= floor(pos / worldSize) * worldSize
WrapPosition(pos, worldSize) ==
    FSub(pos, FMul(FFloor(FDiv(pos, worldSize)), worldSize))

\* the position update with the sign of the displacement flipped
MoveBack(pos, vel, dt, worldSize) ==
    WrapPosition(FSub(pos, FMul(vel, dt)), worldSize)

\* pos += vel * deltaTime, then the toroidal wrap
Move(pos, vel, dt, worldSize) ==
    WrapPosition(FAdd(pos, FMul(vel, dt)), worldSize)

----------------------------------------------------------------------------
\* The state

VARIABLES
    pc,            \* where main is: "constructed" (Particles built), "running"
    screenWidth,   \* the world size handed to initSimulation and
    screenHeight,  \*   updateSimulation, as integers (GetScreenWidth/Height)
    posX, posY,    \* struct Particles: entry k is the particle of index k - 1
    velX, velY,
    species,
    steps,         \* calls of updateSimulation so far
    last,          \* the arguments and the local arrays of the latest call
    positionRowData, \* main: row 0 of the texture, four floats per particle
    loop,          \* a call of updateSimulation followed statement by
                   \*   statement: deltaTime, the particles the loop over i
                   \*   has visited, in order, and the local arrays so far
    tuning,        \* the force formula on its own: zone radii, one pair, and
                   \*   the force computed for it
    state,         \* the toolpath demo (src/toolpath.cpp): main's State
    mouse          \* the toolpath demo: the pointer as the window library
                   \*   saw it at the latest frame, and the frames so far

vars == <<pc, screenWidth, screenHeight, posX, posY, velX, velY, species,
          steps, last, positionRowData, loop, tuning, state, mouse>>

\* longest run of updateSimulation calls explored
MaxSteps == 2

\* residues of the stand-in pseudorandom generator
RngMod == 16

Particle == 1..numParticles

\* screen sizes explored: square, landscape, portrait, and the 0 x 0 that
\* GetScreenWidth/Height report when InitWindow could not create a window
Worlds == {<<200, 200>>, <<200, 100>>, <<100, 200>>, <<0, 0>>}

\* no call of updateSimulation yet
NoCall ==
    [deltaTime |-> FZero,
     posX |-> <<>>, posY |-> <<>>, velX |-> <<>>, velY |-> <<>>,
     species |-> <<>>, neighbors |-> <<>>, forceX |-> <<>>, forceY |-> <<>>,
     accX |-> <<>>, accY |-> <<>>, speedScale |-> <<>>]

\* no call of updateSimulation is under way
NoLoop ==
    [active |-> FALSE, deltaTime |-> FZero, order |-> <<>>,
     neighbors |-> <<>>, forceX |-> <<>>, forceY |-> <<>>]

\* the zone radii of soup.hpp, no pair evaluated
NoTuning ==
    [rMin |-> rMin, rMax |-> rMax, deltaX |-> FZero, species |-> <<0, 0>>,
     evaluated |-> FALSE, totalForce |-> FZero, forceX |-> FZero]

\* the particle soup has no toolpath State and polls no pointer
NoState == <<>>

NoMouse == <<>>

----------------------------------------------------------------------------
\* initSimulation

\* std::mt19937 seeded from std::random_device: one nondeterministic seed, then
\* a deterministic stream.  The stream here is a small congruential generator
\* standing in for the Mersenne twister; RngDraw(seed, k) is its k-th output.
RECURSIVE RngDraw(_, _)
RngDraw(seed, k) ==
    IF k = 0 THEN seed % RngMod
    ELSE (5 * RngDraw(seed, k - 1) + 3) % RngMod

\* std::uniform_real_distribution<float>(0.0f, hi) applied to the k-th output:
\* a float in [0, hi)
Random(seed, k, hi) ==
    FMul(FDiv(FInt(RngDraw(seed, k)), FInt(RngMod)), FSub(hi, FZero))

\* the value initSimulation draws for posX[index]
RandomX(seed, index, sw, sh) ==
    Random(seed, 2 * index + 1, FInt(sw))

\* the value initSimulation draws for posY[index]: from the same distribution
\* object, which was built from screenWidth
RandomY(seed, index, sw, sh) ==
    Random(seed, 2 * index + 2, FInt(sw))

\* the species dealt round robin: index % numSpecies
RoundRobinSpecies == [k \in Particle |-> (k - 1) % numSpecies]

\* particles.species[index] = index / perSpecies
InitialSpecies == [k \in Particle |-> (k - 1) \div perSpecies]

initSimulation ==
    /\ pc = "constructed"
    /\ \E seed \in 0..(RngMod - 1) :
          /\ posX' = [k \in Particle |->
                         RandomX(seed, k - 1, screenWidth, screenHeight)]
          /\ posY' = [k \in Particle |->
                         RandomY(seed, k - 1, screenWidth, screenHeight)]
    /\ velX' = [k \in Particle |-> FZero]
    /\ velY' = [k \in Particle |-> FZero]
    /\ species' = InitialSpecies
    /\ pc' = "running"
    /\ UNCHANGED <<screenWidth, screenHeight, steps, last, positionRowData,
                   loop, tuning, state, mouse>>

----------------------------------------------------------------------------
\* updateSimulation(particles, deltaTime, screenWidth, screenHeight)

\* every particle turned into the next species
SpeciesShifted(sp) == [k \in 1..Len(sp) |-> (sp[k] + 1) % numSpecies]

\* particles.species after the call: the function never writes it
SpeciesAfter(sp) == sp

\* The value of 0.0f / 0.0f and of every operation on it (IEEE not-a-number).
\* It is no number of the arithmetic above and only appears in a 0 x 0 world.
NotANumber == <<0, 1>>

\* The local arrays for one pair in a 0 x 0 world.  deltaX / screenWidth is
\* x / 0, round of it times 0 is not a number, and so are both deltas and
\* distanceSquared; activeMask compares it and is 0.  .max(1e-6f) on it is
\* unspecified in Eigen: it yields 1e-6f (the lanes then continue as for a
\* pair at distance 1e-6f, totalForce = 0 * ... = 0) or propagates.
ZeroWorldNeighbor(propagates, si, sj) ==
    IF propagates
    THEN [deltaX |-> NotANumber, deltaY |-> NotANumber,
          distanceSquared |-> NotANumber, distance |-> NotANumber,
          inverseDistance |-> NotANumber,
          normalizedDistance |-> NotANumber,
          activeMask |-> FZero, innerMask |-> FZero,
          repulsionForce |-> NotANumber, outerMask |-> FZero,
          matrixValues |-> MatrixValue(si, sj),
          triangleWave |-> NotANumber, interactionForce |-> NotANumber,
          totalForce |-> NotANumber]
    ELSE [Neighbor(FZero, FZero, si, sj) EXCEPT
             !.deltaX = NotANumber, !.deltaY = NotANumber,
             !.distanceSquared = NotANumber]

\* updateSimulation in a 0 x 0 world: forceX += totalForce * deltaX * ... is
\* not a number for every particle, and so are the velocities and positions
\* computed from it, whatever deltaTime is.
ZeroWorldStep(deltaTime) ==
    \E propagates \in BOOLEAN :
    \E undefined \in {Array([i \in 1..Len(posX) |-> NotANumber], Len(posX))} :
       /\ velX' = undefined
       /\ velY' = undefined
       /\ posX' = undefined
       /\ posY' = undefined
       /\ species' = SpeciesAfter(species)
       /\ steps' = steps + 1
       /\ last' = [deltaTime |-> deltaTime,
                   posX |-> posX, posY |-> posY, velX |-> velX, velY |-> velY,
                   species |-> species,
                   neighbors |->
                       Array([i \in 1..Len(posX) |->
                                Array([j \in 1..Len(posX) |->
                                         ZeroWorldNeighbor(propagates,
                                                           species[i],
                                                           species[j])],
                                      Len(posX))],
                             Len(posX)),
                   forceX |-> undefined, forceY |-> undefined,
                   accX |-> undefined, accY |-> undefined,
                   speedScale |-> undefined]
       /\ UNCHANGED <<pc, screenWidth, screenHeight, loop, tuning, state,
                      mouse>>

\* The statements after the loop over i, given the arrays the loop left.
\* Each array is computed in full before the next statement reads it.
Integration(neighbors, forceX, forceY, deltaTime) ==
    \E accX \in {Array([i \in 1..Len(velX) |->
                          Accelerate(velX[i], forceX[i], deltaTime)],
                       Len(velX))} :
    \E accY \in {Array([i \in 1..Len(velY) |->
                          Accelerate(velY[i], forceY[i], deltaTime)],
                       Len(velY))} :
    \E speedScale \in {Array([i \in 1..Len(accX) |->
                                SpeedScale(accX[i], accY[i])],
                             Len(accX))} :
    \E newVelX \in {Array([i \in 1..Len(accX) |-> FMul(accX[i], speedScale[i])],
                          Len(accX))} :
    \E newVelY \in {Array([i \in 1..Len(accY) |-> FMul(accY[i], speedScale[i])],
                          Len(accY))} :
       /\ velX' = newVelX
       /\ velY' = newVelY
       /\ posX' = Array([i \in 1..Len(posX) |->
                           Move(posX[i], newVelX[i], deltaTime,
                                FInt(screenWidth))],
                        Len(posX))
       /\ posY' = Array([i \in 1..Len(posY) |->
                           Move(posY[i], newVelY[i], deltaTime,
                                FInt(screenHeight))],
                        Len(posY))
       /\ species' = SpeciesAfter(species)
       /\ steps' = steps + 1
       /\ last' = [deltaTime |-> deltaTime,
                   posX |-> posX, posY |-> posY, velX |-> velX, velY |-> velY,
                   species |-> species,
                   neighbors |-> neighbors,
                   forceX |-> forceX, forceY |-> forceY,
                   accX |-> accX, accY |-> accY, speedScale |-> speedScale]
       /\ UNCHANGED <<pc, screenWidth, screenHeight, tuning, state, mouse>>

\* The whole call: the loop over i, then the integration.
updateSimulation(deltaTime) ==
    IF screenWidth = 0 /\ screenHeight = 0 THEN ZeroWorldStep(deltaTime) ELSE
    \E neighbors \in {Neighbors(posX, posY, species,
                                FInt(screenWidth), FInt(screenHeight))} :
    \E forceX \in {Forces(neighbors, "x")} :
    \E forceY \in {Forces(neighbors, "y")} :
       /\ Integration(neighbors, forceX, forceY, deltaTime)
       /\ UNCHANGED loop

----------------------------------------------------------------------------
\* main: the window, the particle store, then the frame loop

\* frame times GetFrameTime() reports: 0 (first frame), one 64th of a second,
\* and a stalled frame of half a second
FrameTimes == {FZero, FLit(1, 64), FLit(1, 2)}

\* the frame time handed on as it was reported
Unclamped(frameTime) == frameTime

\* std::min(GetFrameTime(), 1.0f / 30.0f)
ClampFrameTime(frameTime) == FMin(frameTime, FDiv(FOne, FInt(30)))

\* static float positionRowData[numParticles * 4]: zero before the first frame
NoRow == [k \in Particle |-> <<FZero, FZero, FZero, FZero>>]

\* the positions packed for the texture: posX, posY, 0, 0 per particle
PackRow(pX, pY) == [k \in 1..Len(pX) |-> <<pX[k], pY[k], FZero, FZero>>]

\* one turn of the while loop: the clamped step, then the positions are packed
\* and uploaded
Frame ==
    /\ pc = "running"
    /\ steps < MaxSteps
    /\ \E frameTime \in FrameTimes : updateSimulation(ClampFrameTime(frameTime))
    /\ positionRowData' = PackRow(posX', posY')

\* Particles particles(numParticles): Eigen leaves the arrays uninitialized;
\* nothing reads them before initSimulation has written every entry
Init ==
    /\ pc = "constructed"
    /\ \E w \in Worlds : screenWidth = w[1] /\ screenHeight = w[2]
    /\ posX = [k \in Particle |-> FZero]
    /\ posY = [k \in Particle |-> FZero]
    /\ velX = [k \in Particle |-> FZero]
    /\ velY = [k \in Particle |-> FZero]
    /\ species = [k \in Particle |-> 0]
    /\ steps = 0
    /\ last = NoCall
    /\ positionRowData = NoRow
    /\ loop = NoLoop
    /\ tuning = NoTuning
    /\ state = NoState
    /\ mouse = NoMouse

Next == initSimulation \/ Frame

Spec == Init /\ [][Next]_vars

----------------------------------------------------------------------------
\* updateSimulation on its own: any caller may hand it any store and any world

\* the float next above and next below a positive float
Succ(x) ==
    IF x[1] + 1 < Pow2(Precision) THEN <<x[1] + 1, x[2]>>
    ELSE <<Pow2(Precision - 1), x[2] + 1>>
Pred(x) ==
    IF x[1] > Pow2(Precision - 1) THEN <<x[1] - 1, x[2]>>
    ELSE <<Pow2(Precision) - 1, x[2] - 1>>

\* the spacing of the floats at x
Ulp(x) == <<Pow2(Precision - 1), x[2] - (Precision - 1)>>

\* sixteen float spacings above rMin
AboveDip == FAdd(rMin, FMul(FInt(16), Ulp(rMin)))

\* square worlds explored, by their side
StoreWorlds == {100, 200, 400}

\* a store of one particle, and a store of two particles at rest
One(x, y, vx, vy) ==
    [posX |-> <<x>>, posY |-> <<y>>, velX |-> <<vx>>, velY |-> <<vy>>,
     species |-> <<0>>]
Two(place, sp) ==
    [posX |-> <<place[1], place[3]>>, posY |-> <<place[2], place[4]>>,
     velX |-> <<FZero, FZero>>, velY |-> <<FZero, FZero>>,
     species |-> sp]

\* velocities of the lone particle: at rest, drifting left, moving, at the
\* speed cap, over the speed cap
Velocities ==
    {<<FZero, FZero>>, <<FNeg(FLit(1, 4)), FZero>>, <<FInt(3), FInt(-4)>>,
     <<FZero, maxSpeed>>, <<FInt(400), FInt(300)>>, <<FInt(-301), FInt(7)>>,
     <<FInt(1000), FInt(-999)>>}

\* distances between the two particles: none (coincident), a thousandth of a
\* pixel, inside the repulsion zone, at and next to rMin, inside the
\* interaction zone, at its midpoint (rMin + rMax) / 2, at and next to rMax
Separations ==
    {FZero, FLit(1, 1024), FInt(10), Pred(rMin), rMin, Succ(rMin), Succ(Succ(rMin)),
     Succ(Succ(Succ(rMin))), AboveDip, FInt(16), FInt(50), FInt(100),
     FDiv(FAdd(rMin, rMax), FInt(2)), FInt(150), Pred(rMax), rMax}

\* <<x1, y1, x2, y2>>: one particle at the origin, the other at a distance
\* along either axis that is the shortest way round the world
FromOrigin(w) ==
    {<<FZero, FZero, d, FZero>> :
        d \in {d \in Separations : FLe(d, FDiv(FInt(w), FInt(2)))}} \cup
    {<<FZero, FZero, FZero, d>> :
        d \in {d \in Separations : FLe(d, FDiv(FInt(w), FInt(2)))}}

\* across the seam of a world of width 100, both ways; 100 apart along x; 100
\* apart along the diagonal (60, 80); 250 apart along the diagonal (150, 200),
\* beyond rMax
Elsewhere(w) ==
    {place \in {<<FInt(5), FInt(20), FInt(95), FInt(20)>>,
                <<FInt(95), FInt(20), FInt(5), FInt(20)>>,
                <<FInt(50), FInt(50), FInt(150), FInt(50)>>,
                <<FInt(8), FInt(40), FInt(68), FInt(120)>>,
                <<FInt(8), FInt(40), FInt(158), FInt(240)>>} :
        \A c \in 1..4 : FLt(place[c], FInt(w))}

Placements(w) == FromOrigin(w) \cup Elsewhere(w)

SpeciesPairs == {<<0, 0>>, <<0, 1>>, <<1, 0>>}

Stores(w) ==
    {One(FInt(p[1]), FInt(p[2]), v[1], v[2]) :
        p \in {<<0, 0>>, <<50, 25>>}, v \in Velocities} \cup
    {Two(place, sp) : place \in Placements(w), sp \in SpeciesPairs}

\* values of deltaTime: none, a millisecond, a frame, two seconds
DeltaTimes == {FZero, FLit(1, 1024), FLit(1, 32), FInt(2)}

InitStore ==
    /\ pc = "running"
    /\ \E w \in StoreWorlds :
          /\ screenWidth = w
          /\ screenHeight = w
          /\ \E store \in Stores(w) :
                /\ posX = store.posX
                /\ posY = store.posY
                /\ velX = store.velX
                /\ velY = store.velY
                /\ species = store.species
    /\ steps = 0
    /\ last = NoCall
    /\ positionRowData = NoRow
    /\ loop = NoLoop
    /\ tuning = NoTuning
    /\ state = NoState
    /\ mouse = NoMouse

\* a call outside the frame loop: nothing is packed
Step ==
    /\ steps < MaxSteps
    /\ \E deltaTime \in DeltaTimes : updateSimulation(deltaTime)
    /\ UNCHANGED positionRowData

SpecStore == InitStore /\ [][Step]_vars

----------------------------------------------------------------------------
\* updateSimulation statement by statement.  The code visits the particles in
\* index order; here the loop body may run for any particle not yet visited.

\* calls followed statement by statement in one run
LoopCalls == 1

\* n copies of x
Filled(x, n) == Array([k \in 1..n |-> x], n)

\* the particles the loop over i has visited
Visited == {loop.order[k] : k \in 1..Len(loop.order)}

\* entry: deltaTime is bound, forceX and forceY are zero arrays
Enter(deltaTime) ==
    /\ pc = "running"
    /\ ~loop.active
    /\ steps < LoopCalls
    /\ loop' = [active |-> TRUE, deltaTime |-> deltaTime, order |-> <<>>,
                neighbors |-> Filled(<<>>, Len(posX)),
                forceX |-> Filled(FZero, Len(posX)),
                forceY |-> Filled(FZero, Len(posX))]
    /\ UNCHANGED <<pc, screenWidth, screenHeight, posX, posY, velX, velY,
                   species, steps, last, positionRowData, tuning, state,
                   mouse>>

\* the position already integrated inside the loop
MovedInLoop(pos, vel, dt, worldSize) == Move(pos, vel, dt, worldSize)

\* a position after the loop body has run for some particle: the body writes
\* forceX[i] and forceY[i] and nothing of the store
AfterLoopBody(pos, vel, dt, worldSize) == pos

\* the loop body for particle i
LoopBody(i) ==
    /\ loop.active
    /\ i \notin Visited
    /\ \E row \in {Row(i, posX, posY, species,
                        FInt(screenWidth), FInt(screenHeight))} :
          loop' = [loop EXCEPT !.order = Append(@, i),
                               !.neighbors[i] = row,
                               !.forceX[i] = ForceSum(row, "x", Len(row)),
                               !.forceY[i] = ForceSum(row, "y", Len(row))]
    /\ posX' = Array([k \in 1..Len(posX) |->
                        AfterLoopBody(posX[k], velX[k], loop.deltaTime,
                                      FInt(screenWidth))],
                     Len(posX))
    /\ posY' = Array([k \in 1..Len(posY) |->
                        AfterLoopBody(posY[k], velY[k], loop.deltaTime,
                                      FInt(screenHeight))],
                     Len(posY))
    /\ UNCHANGED <<pc, screenWidth, screenHeight, velX, velY, species, steps,
                   last, positionRowData, tuning, state, mouse>>

\* the statements after the loop, once it has visited every particle
Integrate ==
    /\ loop.active
    /\ Len(loop.order) = Len(posX)
    /\ Integration(loop.neighbors, loop.forceX, loop.forceY, loop.deltaTime)
    /\ loop' = [loop EXCEPT !.active = FALSE]
    /\ UNCHANGED positionRowData

NextLoop ==
    \/ \E deltaTime \in DeltaTimes : Enter(deltaTime)
    \/ \E i \in 1..Len(posX) : LoopBody(i)
    \/ Integrate

SpecLoop == InitStore /\ [][NextLoop]_vars

----------------------------------------------------------------------------
\* The force formula of updateSimulation with other zone radii than those of
\* soup.hpp.  A division by zero is not an error in float arithmetic: it
\* yields an infinity or not-a-number, which the operations below carry on.

PosInf == <<0, 2>>
NegInf == <<0, 3>>

IsInf(x) == x = PosInf \/ x = NegInf

Finite(x) == x[1] # 0 \/ x[2] = 0

XSgn(x) == IF x = PosInf THEN 1 ELSE IF x = NegInf THEN -1 ELSE Sgn(x[1])

Inf(sign) == IF sign < 0 THEN NegInf ELSE PosInf

XNeg(x) ==
    IF x = NotANumber THEN NotANumber
    ELSE IF IsInf(x) THEN Inf(-XSgn(x))
    ELSE FNeg(x)

XAbs(x) ==
    IF x = NotANumber THEN NotANumber
    ELSE IF IsInf(x) THEN PosInf
    ELSE FAbs(x)

\* inf + -inf is not a number
XAdd(x, y) ==
    IF x = NotANumber \/ y = NotANumber THEN NotANumber
    ELSE IF IsInf(x) /\ IsInf(y) THEN (IF x = y THEN x ELSE NotANumber)
    ELSE IF IsInf(x) THEN x
    ELSE IF IsInf(y) THEN y
    ELSE FAdd(x, y)

XSub(x, y) == XAdd(x, XNeg(y))

\* 0 * inf is not a number
XMul(x, y) ==
    IF x = NotANumber \/ y = NotANumber THEN NotANumber
    ELSE IF IsInf(x) \/ IsInf(y)
         THEN (IF x = FZero \/ y = FZero THEN NotANumber
               ELSE Inf(XSgn(x) * XSgn(y)))
    ELSE FMul(x, y)

\* x / 0 is an infinity, 0 / 0 and inf / inf are not a number (the zeros that
\* occur as divisors here are positive zeros)
XDiv(x, y) ==
    IF x = NotANumber \/ y = NotANumber THEN NotANumber
    ELSE IF IsInf(x) THEN (IF IsInf(y) THEN NotANumber
                           ELSE IF y = FZero THEN x
                           ELSE Inf(XSgn(x) * XSgn(y)))
    ELSE IF IsInf(y) THEN FZero
    ELSE IF y = FZero THEN (IF x = FZero THEN NotANumber ELSE Inf(XSgn(x)))
    ELSE FDiv(x, y)

\* every comparison with not-a-number is false
XLt(x, y) ==
    IF x = NotANumber \/ y = NotANumber THEN FALSE
    ELSE IF x = y THEN FALSE
    ELSE IF x = NegInf \/ y = PosInf THEN TRUE
    ELSE IF x = PosInf \/ y = NegInf THEN FALSE
    ELSE FLt(x, y)

XLe(x, y) ==
    IF x = NotANumber \/ y = NotANumber THEN FALSE
    ELSE x = y \/ XLt(x, y)

\* totalForce of one pair (soup.cpp lines 48-52 and 78-109) with rMin and
\* rMax as given, and its term of forceX (line 114) for deltaY = 0
TunedForce(rMinT, rMaxT, deltaX, si, sj) ==
    LET betaT               == XDiv(rMinT, rMaxT)
        inverseBetaT        == XDiv(FOne, betaT)
        triangleDenominatorT == XSub(FOne, betaT)
        rMaxSquaredT        == XMul(rMaxT, rMaxT)
        distanceSquared     == DistanceSquared(deltaX, FZero)
        distance            == Distance(distanceSquared)
        inverseDistance     == XDiv(FOne, distance)
        normalizedDistance  == XDiv(distance, rMaxT)
        activeMask   == FBool(XLt(distanceSquared, rMaxSquaredT) /\
                              XLt(Epsilon, distanceSquared))
        innerMask    == FBool(XLt(normalizedDistance, betaT))
        repulsionForce ==
            XMul(XSub(XMul(normalizedDistance, inverseBetaT), FOne),
                 repulsionScale)
        outerMask    == FBool(XLe(betaT, normalizedDistance) /\
                              XLt(normalizedDistance, FOne))
        triangleWave ==
            XSub(FOne,
                 XDiv(XAbs(XSub(XAdd(FOne, betaT),
                                XMul(FInt(2), normalizedDistance))),
                      triangleDenominatorT))
        interactionForce == XMul(MatrixValue(si, sj), triangleWave)
        totalForce ==
            XMul(activeMask,
                 XAdd(XMul(innerMask, repulsionForce),
                      XMul(outerMask, interactionForce)))
    IN [totalForce |-> totalForce,
        forceX |-> XMul(XMul(totalForce, deltaX), inverseDistance)]

\* zone radii explored, rMin <= rMax: those of soup.hpp; both 70, inside the
\* ranges the comments of soup.hpp give for each; both 200; rMin = 0; rMin
\* next to rMax; a wide repulsion zone
Tunings ==
    {<<rMin, rMax>>, <<FInt(70), FInt(70)>>, <<rMax, rMax>>,
     <<FZero, rMax>>, <<FInt(15), FInt(16)>>, <<FInt(60), FInt(80)>>}

\* displacements of the pair along x: none (the particle itself), and from 1
\* to 300 pixels
TunedDeltas ==
    {FZero, FInt(1), FInt(10), FInt(15), FInt(40), FInt(70), FInt(100),
     FInt(200), FInt(300)}

InitTuning ==
    /\ pc = "constructed"
    /\ screenWidth = 200 /\ screenHeight = 200
    /\ posX = [k \in Particle |-> FZero]
    /\ posY = [k \in Particle |-> FZero]
    /\ velX = [k \in Particle |-> FZero]
    /\ velY = [k \in Particle |-> FZero]
    /\ species = [k \in Particle |-> 0]
    /\ steps = 0
    /\ last = NoCall
    /\ positionRowData = NoRow
    /\ loop = NoLoop
    /\ state = NoState
    /\ mouse = NoMouse
    /\ \E t \in Tunings : \E d \in TunedDeltas : \E sp \in SpeciesPairs :
          tuning = [rMin |-> t[1], rMax |-> t[2], deltaX |-> d,
                    species |-> sp, evaluated |-> FALSE,
                    totalForce |-> FZero, forceX |-> FZero]

\* the formula applied to the pair
Evaluate ==
    /\ ~tuning.evaluated
    /\ \E force \in {TunedForce(tuning.rMin, tuning.rMax, tuning.deltaX,
                                 tuning.species[1], tuning.species[2])} :
          tuning' = [tuning EXCEPT !.evaluated = TRUE,
                                   !.totalForce = force.totalForce,
                                   !.forceX = force.forceX]
    /\ UNCHANGED <<pc, screenWidth, screenHeight, posX, posY, velX, velY,
                   species, steps, last, positionRowData, loop, state, mouse>>

SpecTuning == InitTuning /\ [][Evaluate]_vars

----------------------------------------------------------------------------
\* The toolpath demo (src/toolpath.cpp, src/toolpath.hpp): init_state and
\* handle_mouse.
\*
\* Lengths are pixels, as integers.  A slider's min and max are written in
\* tenths, and an input value is an integer count of 1/(10 * rect.width), the
\* grid on which min + t * (max - min) is exact for a pointer on a whole
\* pixel; the rounding of the program's doubles is not modelled.  The camera
\* is the angle its position has been turned by about camera.up since
\* init_state, in hundredths of a radian.

\* frames of the main loop explored
MaxFrames == 5

Rectangle(x, y, width, height) ==
    [x |-> x, y |-> y, width |-> width, height |-> height]

\* struct State::Slider {rect, min, max, label, sliding}, sliding left to the
\* aggregate initialisation
Slider(rect, min, max, label) ==
    [rect |-> rect, min |-> min, max |-> max, label |-> label,
     sliding |-> FALSE]

\* a double of the program on the grid of the slider that edits it
Double(tenths, slider) == tenths * slider.rect.width

\* raylib CheckCollisionPointRec
CheckCollisionPointRec(point, rec) ==
    /\ point.x >= rec.x /\ point.x < rec.x + rec.width
    /\ point.y >= rec.y /\ point.y < rec.y + rec.height

\* raymath Clamp
Clamp(value, min, max) ==
    IF value < min THEN min ELSE IF value > max THEN max ELSE value

\* struct Input: the default member initialisers, then init_state's kind
InitialInput(s) ==
    [kind |-> "Linear",
     width |-> Double(100, s.width),
     height |-> Double(20, s.height),
     height_spacing |-> Double(10, s.spacing),
     spiralizing_out_factor |-> Double(10, s.factor),
     spiral_length |-> Double(100, s.length),
     spiral_step |-> Double(1, s.step)]

InitialSliders ==
    [width |-> Slider(Rectangle(20, 80, 200, 20), 10, 200, "Width"),
     height |-> Slider(Rectangle(20, 140, 200, 20), 10, 100, "Height"),
     spacing |-> Slider(Rectangle(20, 200, 200, 20), 2, 20, "Spacing"),
     factor |-> Slider(Rectangle(20, 80, 200, 20), 1, 10, "Factor"),
     length |-> Slider(Rectangle(20, 140, 200, 20), 50, 150, "Length"),
     step |-> Slider(Rectangle(20, 200, 200, 20), 1, 10, "Step")]

init_state ==
    [camera |-> 0,
     linear |-> TRUE,
     toggle |-> Rectangle(20, 20, 120, 30),
     width |-> InitialSliders.width,
     height |-> InitialSliders.height,
     spacing |-> InitialSliders.spacing,
     factor |-> InitialSliders.factor,
     length |-> InitialSliders.length,
     step |-> InitialSliders.step,
     input |-> InitialInput(InitialSliders)]

\* the toggle's click: s.linear flips and s.input.kind follows it
KindOf(linear) == IF linear THEN "Linear" ELSE "Spiral"

Toggled(s, mouse_pos, pressed) ==
    IF pressed /\ CheckCollisionPointRec(mouse_pos, s.toggle)
    THEN [s EXCEPT !.linear = ~s.linear,
                   !.input.kind = KindOf(~s.linear)]
    ELSE s

\* the two loops over the six sliders: a press grabs every slider under the
\* pointer, a release lets every slider go
Sliding(slider, mouse_pos, pressed, released) ==
    IF released THEN FALSE
    ELSE IF pressed /\ CheckCollisionPointRec(mouse_pos, slider.rect)
         THEN TRUE
         ELSE slider.sliding

Grabbed(s, mouse_pos, pressed, released) ==
    [s EXCEPT
       !.width.sliding = Sliding(s.width, mouse_pos, pressed, released),
       !.height.sliding = Sliding(s.height, mouse_pos, pressed, released),
       !.spacing.sliding = Sliding(s.spacing, mouse_pos, pressed, released),
       !.factor.sliding = Sliding(s.factor, mouse_pos, pressed, released),
       !.length.sliding = Sliding(s.length, mouse_pos, pressed, released),
       !.step.sliding = Sliding(s.step, mouse_pos, pressed, released)]

\* a lambda that writes for every slider that is held, whatever the mode
WritesWhileSliding(slider, condition) == slider.sliding

\* whether updateSlider writes: the condition handle_mouse hands it
Writes(slider, condition) == slider.sliding /\ condition

\* the lambda updateSlider: the value it leaves
updateSlider(slider, value, condition, mouse_pos) ==
    IF Writes(slider, condition)
    THEN Double(slider.min, slider)
         + Clamp(mouse_pos.x - slider.rect.x, 0, slider.rect.width)
           * (slider.max - slider.min)
    ELSE value

Updated(s, mouse_pos) ==
    [s EXCEPT
       !.input.width =
           updateSlider(s.width, s.input.width, s.linear, mouse_pos),
       !.input.height =
           updateSlider(s.height, s.input.height, s.linear, mouse_pos),
       !.input.height_spacing =
           updateSlider(s.spacing, s.input.height_spacing, s.linear,
                        mouse_pos),
       !.input.spiralizing_out_factor =
           updateSlider(s.factor, s.input.spiralizing_out_factor, ~s.linear,
                        mouse_pos),
       !.input.spiral_length =
           updateSlider(s.length, s.input.spiral_length, ~s.linear,
                        mouse_pos),
       !.input.spiral_step =
           updateSlider(s.step, s.input.spiral_step, ~s.linear, mouse_pos)]

\* the manual X panning
Panned(s, mouse_pos, down, delta) ==
    IF down /\ mouse_pos.x > 240
    THEN [s EXCEPT !.camera = s.camera - delta.x]
    ELSE s

\* where the pointer is put: left of every rectangle, on the toggle and the
\* sliders, right of them, and on the 3D view; on the toggle's row and on each
\* row of sliders
MouseXs == {10, 120, 230, 250}

MouseYs == {35, 90, 150, 210}

InitToolpath ==
    /\ pc = "constructed"
    /\ screenWidth = 1280 /\ screenHeight = 720
    /\ posX = [k \in Particle |-> FZero]
    /\ posY = [k \in Particle |-> FZero]
    /\ velX = [k \in Particle |-> FZero]
    /\ velY = [k \in Particle |-> FZero]
    /\ species = [k \in Particle |-> 0]
    /\ steps = 0
    /\ last = NoCall
    /\ positionRowData = NoRow
    /\ loop = NoLoop
    /\ tuning = NoTuning
    /\ state = init_state
    /\ \E x \in MouseXs : \E y \in MouseYs :
          mouse = [x |-> x, y |-> y, down |-> FALSE, frames |-> 0]

\* one frame: the library polls the pointer, then handle_mouse runs.  A button
\* is pressed in the frame it goes down and released in the frame it goes up.
handle_mouse ==
    /\ mouse.frames < MaxFrames
    /\ \E x \in MouseXs : \E y \in MouseYs : \E down \in BOOLEAN :
          \E mouse_pos \in {[x |-> x, y |-> y]} :
          \E pressed \in {down /\ ~mouse.down} :
          \E released \in {~down /\ mouse.down} :
          \E delta \in {[x |-> x - mouse.x, y |-> y - mouse.y]} :
             /\ state' = Panned(Updated(Grabbed(Toggled(state, mouse_pos,
                                                        pressed),
                                                mouse_pos, pressed, released),
                                        mouse_pos),
                                mouse_pos, down, delta)
             /\ mouse' = [x |-> x, y |-> y, down |-> down,
                          frames |-> mouse.frames + 1]
    /\ UNCHANGED <<pc, screenWidth, screenHeight, posX, posY, velX, velY,
                   species, steps, last, positionRowData, loop, tuning>>

SpecToolpath == InitToolpath /\ [][handle_mouse]_vars

----------------------------------------------------------------------------
\* Properties

\* both world extents are positive
PositiveWorld == screenWidth > 0 /\ screenHeight > 0

\* every particle of the store <<pX, pY>> lies in [0, screenWidth) x
\* [0, screenHeight)
Inside(pX, pY) ==
    \A k \in 1..Len(pX) :
       /\ FLe(FZero, pX[k]) /\ FLt(pX[k], FInt(screenWidth))
       /\ FLe(FZero, pY[k]) /\ FLt(pY[k], FInt(screenHeight))

\* C1: after updateSimulation returns, whatever the store, deltaTime and world
\* were, every particle has 0 <= posX < screenWidth and 0 <= posY < screenHeight
ToroidalContainment == steps > 0 => Inside(posX, posY)

\* C3: right after initSimulation every particle lies in [0, screenWidth) x
\* [0, screenHeight), for every world, also when the width exceeds the height
InitContainment ==
    (pc = "running" /\ steps = 0 /\ PositiveWorld) => Inside(posX, posY)

\* C4: from initSimulation on, fresh store included, a call of updateSimulation
\* with deltaTime = 0 leaves posX and posY of every particle as they were
ZeroStepIdempotence ==
    (steps > 0 /\ last.deltaTime = FZero /\ PositiveWorld) =>
        (posX = last.posX /\ posY = last.posY)

\* four units in the last place of maxSpeed
SpeedTolerance == FMul(maxSpeed, FDiv(FInt(4), FInt(Pow2(Precision - 1))))

\* C2: after updateSimulation, whatever the velocity at entry, the force and
\* deltaTime were, the speed of every particle is at most maxSpeed, within a
\* tolerance of four units in the last place of maxSpeed
SpeedCap ==
    steps > 0 =>
        \A k \in 1..Len(velX) :
           FLe(Speed(velX[k], velY[k]), FAdd(maxSpeed, SpeedTolerance))

\* a call that had to cap: the velocity after friction and force was faster
\* than maxSpeed
SpeedCapped ==
    /\ steps > 0
    /\ \E k \in 1..Len(velX) :
          /\ FLt(maxSpeed,
                 Speed(Accelerate(last.velX[k], last.forceX[k], last.deltaTime),
                       Accelerate(last.velY[k], last.forceY[k], last.deltaTime)))
          /\ FLe(Speed(velX[k], velY[k]), FAdd(maxSpeed, SpeedTolerance))

\* delta is the displacement from `from` to `to` or that displacement one
\* world size the other way, whichever is shorter
ShortestDelta(delta, from, to, worldSize) ==
    /\ FLe(FAbs(delta), FDiv(worldSize, FInt(2)))
    /\ delta \in {FSub(to, from), FSub(FSub(to, from), worldSize),
                  FAdd(FSub(to, from), worldSize)}
    /\ FAbs(delta) = FMin(FAbs(FSub(to, from)),
                          FSub(worldSize, FAbs(FSub(to, from))))

\* C6: for particles inside the world, the delta updateSimulation computes on
\* each axis is the displacement or the displacement one world size the other
\* way, whichever is shorter, so its magnitude is at most half the world size;
\* particles at x = 5 and x = 95 in a world of width 100 get a delta of
\* magnitude 10
WrapCorrectness ==
    (steps > 0 /\ Inside(last.posX, last.posY)) =>
        \A i \in 1..Len(last.posX) : \A j \in 1..Len(last.posX) :
           /\ ShortestDelta(last.neighbors[i][j].deltaX,
                            last.posX[i], last.posX[j], FInt(screenWidth))
           /\ ShortestDelta(last.neighbors[i][j].deltaY,
                            last.posY[i], last.posY[j], FInt(screenHeight))
           /\ (screenWidth = 100 /\ last.posX[i] = FInt(5)
                                 /\ last.posX[j] = FInt(95))
                 => last.neighbors[i][j].deltaX = FInt(-10)
           /\ (screenWidth = 100 /\ last.posX[i] = FInt(95)
                                 /\ last.posX[j] = FInt(5))
                 => last.neighbors[i][j].deltaX = FInt(10)

\* the call saw particles at x = 5 and x = 95 in a world of width 100
WrapAcrossSeam ==
    /\ steps > 0
    /\ screenWidth = 100
    /\ last.posX = <<FInt(5), FInt(95)>>
    /\ last.neighbors[1][2].deltaX = FInt(-10)
    /\ last.neighbors[2][1].deltaX = FInt(10)

\* C7: a particle exerts no force on itself; in a world of one particle every
\* call computes forceX = forceY = 0, the velocity (within the speed cap at
\* entry) is only multiplied by 1 - friction, and the speed never increases
SelfExclusion ==
    steps > 0 =>
        /\ \A i \in 1..Len(last.posX) :
              last.neighbors[i][i].totalForce = FZero
        /\ Len(last.posX) = 1 =>
              /\ last.forceX = <<FZero>>
              /\ last.forceY = <<FZero>>
              /\ FLe(Speed(last.velX[1], last.velY[1]), maxSpeed) =>
                    /\ velX[1] = FMul(last.velX[1], FSub(FOne, friction))
                    /\ velY[1] = FMul(last.velY[1], FSub(FOne, friction))
              /\ FLe(FAbs(velX[1]), FAbs(last.velX[1]))
              /\ FLe(FAbs(velY[1]), FAbs(last.velY[1]))
              /\ FLe(Speed(velX[1], velY[1]), Speed(last.velX[1], last.velY[1]))

\* a lone moving particle after two calls
AloneDecaying ==
    /\ steps >= 2
    /\ Len(posX) = 1
    /\ last.velX[1] # FZero
    /\ velX[1] = FMul(last.velX[1], FSub(FOne, friction))
    /\ FLt(FAbs(velX[1]), FAbs(last.velX[1]))

\* C10: updateSimulation changes no entry of particles.species and not the
\* number of particles: after any run of calls the species array is the one
\* initSimulation wrote
SpeciesFrozen ==
    pc = "running" =>
        /\ species = InitialSpecies
        /\ Len(posX) = numParticles /\ Len(posY) = numParticles
        /\ Len(velX) = numParticles /\ Len(velY) = numParticles
        /\ Len(species) = numParticles

\* two calls after initSimulation, particles having moved
SteppedTwice ==
    /\ pc = "running"
    /\ steps >= 2
    /\ posX # last.posX
    /\ species = InitialSpecies

\* the force computed on particle a, along the wrapped displacement from a to
\* b: positive when it points toward b
Radial(a, b) ==
    FAdd(FMul(last.forceX[a], last.neighbors[a][b].deltaX),
         FMul(last.forceY[a], last.neighbors[a][b].deltaY))

\* a and b are the two particles, matrix[a's species][b's species] > 0 and
\* matrix[b's species][a's species] < 0
Predator(a, b) ==
    /\ Len(last.posX) = 2
    /\ a # b
    /\ FLt(FZero, forceMatrix[last.species[a]][last.species[b]])
    /\ FLt(forceMatrix[last.species[b]][last.species[a]], FZero)

\* C8, as amended: with matrix[A][B] > 0 and matrix[B][A] < 0, for one
\* A-particle and one B-particle whose wrapped distance is below rMax and at
\* least sixteen float spacings above rMin, the triangle wave is positive, the
\* force on A points toward B and the force on B points away from A
AsymmetricInteraction ==
    steps > 0 =>
        \A a \in 1..Len(last.posX) : \A b \in 1..Len(last.posX) :
           (/\ Predator(a, b)
            /\ FLe(AboveDip, last.neighbors[a][b].distance)
            /\ FLt(last.neighbors[a][b].distance, rMax))
              => /\ FLt(FZero, last.neighbors[a][b].triangleWave)
                 /\ FLt(FZero, Radial(a, b))
                 /\ FLt(Radial(b, a), FZero)

\* C8, as stated: the same for every wrapped distance strictly between rMin
\* and rMax
AsymmetricEverywhere ==
    steps > 0 =>
        \A a \in 1..Len(last.posX) : \A b \in 1..Len(last.posX) :
           (/\ Predator(a, b)
            /\ FLt(rMin, last.neighbors[a][b].distance)
            /\ FLt(last.neighbors[a][b].distance, rMax))
              => /\ FLt(FZero, Radial(a, b))
                 /\ FLt(Radial(b, a), FZero)

\* species 0 chasing species 1 at distance 100
PredatorAndPrey ==
    /\ steps > 0
    /\ Len(last.posX) = 2
    /\ last.species = <<0, 1>>
    /\ last.neighbors[1][2].distance = FInt(100)
    /\ FLt(FZero, Radial(1, 2))
    /\ FLt(Radial(2, 1), FZero)

\* two float spacings at 1
ZoneTolerance == FDiv(FInt(2), FInt(Pow2(Precision - 1)))

\* C9, as amended: at normalizedDistance = beta the repulsion formula is 0 and
\* the outer-zone contribution matrixValues * triangleWave is 0 within two
\* float spacings of the coefficient, and so is the total; at
\* normalizedDistance = 1 the outer-zone contribution is 0 within the same
\* tolerance and the total is 0; for every matrix coefficient
ZoneContinuity ==
    steps > 0 =>
        \A i \in 1..Len(last.posX) : \A j \in 1..Len(last.posX) :
           /\ last.neighbors[i][j].normalizedDistance = beta =>
                 /\ last.neighbors[i][j].repulsionForce = FZero
                 /\ FLe(FAbs(last.neighbors[i][j].interactionForce),
                        FMul(FAbs(last.neighbors[i][j].matrixValues),
                             ZoneTolerance))
                 /\ FLe(FAbs(last.neighbors[i][j].totalForce),
                        FMul(FAbs(last.neighbors[i][j].matrixValues),
                             ZoneTolerance))
           /\ last.neighbors[i][j].normalizedDistance = FOne =>
                 /\ FLe(FAbs(last.neighbors[i][j].interactionForce),
                        FMul(FAbs(last.neighbors[i][j].matrixValues),
                             ZoneTolerance))
                 /\ last.neighbors[i][j].totalForce = FZero

\* C9, as stated: both formulas are exactly 0 at normalizedDistance = beta, and
\* the outer-zone contribution is exactly 0 at normalizedDistance = 1
ZoneContinuityExact ==
    steps > 0 =>
        \A i \in 1..Len(last.posX) : \A j \in 1..Len(last.posX) :
           /\ last.neighbors[i][j].normalizedDistance = beta =>
                 /\ last.neighbors[i][j].repulsionForce = FZero
                 /\ last.neighbors[i][j].interactionForce = FZero
           /\ last.neighbors[i][j].normalizedDistance = FOne =>
                 last.neighbors[i][j].interactionForce = FZero

\* a call that saw a pair at rMin: outside the repulsion zone, the outer-zone
\* contribution not 0
AtZoneBoundary ==
    /\ steps > 0
    /\ Len(last.posX) = 2
    /\ last.species = <<0, 1>>
    /\ last.neighbors[1][2].normalizedDistance = beta
    /\ last.neighbors[1][2].innerMask = FZero
    /\ last.neighbors[1][2].outerMask = FOne
    /\ last.neighbors[1][2].repulsionForce = FZero
    /\ last.neighbors[1][2].interactionForce # FZero

\* Positions measured exactly, in units of 2^-FixedBits
FixedBits == 16

\* x is a whole number of units
Exact(x) == x[2] + FixedBits >= 0

Fixed(x) == IF Exact(x) THEN x[1] * Pow2(x[2] + FixedBits) ELSE 0

\* a world size in units
Units(worldSize) == worldSize * Pow2(FixedBits)

\* the distance from a to b along one axis in units, not counting whole turns
\* round the world
Residue(a, b, worldSize) == Abs(Fixed(b) - Fixed(a)) % Units(worldSize)

\* the distance from a to b along one axis, the shorter way round a world of
\* the given size, in units
AxisSeparation(a, b, worldSize) ==
    IF 2 * Residue(a, b, worldSize) <= Units(worldSize)
    THEN Residue(a, b, worldSize)
    ELSE Units(worldSize) - Residue(a, b, worldSize)

\* the latest call was made on two particles of one species at rest, 100 apart
\* in a world of 200 x 200, with deltaTime > 0
CohesionScene ==
    /\ steps > 0
    /\ Len(last.posX) = 2
    /\ screenWidth = 200 /\ screenHeight = 200
    /\ last.species[1] = last.species[2]
    /\ last.velX = <<FZero, FZero>> /\ last.velY = <<FZero, FZero>>
    /\ Inside(last.posX, last.posY)
    /\ last.neighbors[1][2].distance = FInt(100)
    /\ FLt(FZero, last.deltaTime)

\* the call changed the place of a particle in the world
Moved ==
    \E k \in 1..2 :
       \/ Fixed(posX[k]) % Units(screenWidth)
             # Fixed(last.posX[k]) % Units(screenWidth)
       \/ Fixed(posY[k]) % Units(screenHeight)
             # Fixed(last.posY[k]) % Units(screenHeight)

\* the separation along x or along y is smaller after the call than before
NearerOnSomeAxis ==
    \/ AxisSeparation(posX[1], posX[2], screenWidth)
          < AxisSeparation(last.posX[1], last.posX[2], screenWidth)
    \/ AxisSeparation(posY[1], posY[2], screenHeight)
          < AxisSeparation(last.posY[1], last.posY[2], screenHeight)

\* C5, as amended: two particles of one species at rest, 100 apart in a world
\* of 200 x 200, one call with 0 < deltaTime <= 1/30: along neither axis are the
\* particles farther apart than before, along some axis they are nearer
\* whenever the call moved a particle, and neither speed exceeds maxSpeed
Cohesion ==
    (CohesionScene /\ FLe(last.deltaTime, FDiv(FOne, FInt(30)))) =>
        /\ \A k \in 1..2 :
              /\ Exact(posX[k]) /\ Exact(posY[k])
              /\ Exact(last.posX[k]) /\ Exact(last.posY[k])
        /\ AxisSeparation(posX[1], posX[2], screenWidth)
              <= AxisSeparation(last.posX[1], last.posX[2], screenWidth)
        /\ AxisSeparation(posY[1], posY[2], screenHeight)
              <= AxisSeparation(last.posY[1], last.posY[2], screenHeight)
        /\ Moved => NearerOnSomeAxis
        /\ \A k \in 1..2 : FLe(Speed(velX[k], velY[k]), maxSpeed)

\* C5, as stated: for every deltaTime > 0 the separation after the call is
\* strictly smaller than before (so it is smaller along some axis), and
\* neither speed exceeds maxSpeed
CohesionEveryStep ==
    CohesionScene =>
        /\ \A k \in 1..2 :
              /\ Exact(posX[k]) /\ Exact(posY[k])
              /\ Exact(last.posX[k]) /\ Exact(last.posY[k])
        /\ NearerOnSomeAxis
        /\ \A k \in 1..2 : FLe(Speed(velX[k], velY[k]), maxSpeed)

\* the diagonal placement pulled together by a call with deltaTime = 1/32
PulledTogether ==
    /\ CohesionScene
    /\ FLe(last.deltaTime, FDiv(FOne, FInt(30)))
    /\ last.posX = <<FInt(8), FInt(68)>>
    /\ last.posY = <<FInt(40), FInt(120)>>
    /\ Moved
    /\ NearerOnSomeAxis

----------------------------------------------------------------------------
\* Preconditions of initialization

\* C11: when a world extent is not positive (the particle count and the matrix
\* dimensions cannot be wrong: numParticles is numSpecies * perSpecies and
\* forceMatrix is numSpecies x numSpecies by declaration), initialization
\* refuses to start: main never gets past the construction of the store, no
\* particle is placed and updateSimulation is never called
RefusesToStart ==
    ~PositiveWorld => (pc = "constructed" /\ steps = 0)

----------------------------------------------------------------------------
\* The frame loop

\* C12: in the frame loop every call of updateSimulation gets a deltaTime of at
\* most 1/30 s, whatever frame time was reported, a stalled frame included;
\* a frame runs exactly one call, and the positions packed for rendering are
\* those the call left
ClampedStepThenRead ==
    [][(steps' # steps \/ positionRowData' # positionRowData) =>
          /\ steps' = steps + 1
          /\ FLe(last'.deltaTime, FDiv(FOne, FInt(30)))
          /\ positionRowData' = PackRow(posX', posY')]_vars

\* a stalled frame went through: its call got exactly 1/30 s, particles
\* moved, and the moved positions were packed
StalledFrame ==
    /\ steps > 0
    /\ last.deltaTime = FDiv(FOne, FInt(30))
    /\ posX # last.posX
    /\ positionRowData = PackRow(posX, posY)
    /\ positionRowData # PackRow(last.posX, last.posY)

----------------------------------------------------------------------------
\* Masks and zones

\* the zone force of a pair: the inner or the outer formula, by the zone masks
ZoneForce(n) ==
    FAdd(FMul(n.innerMask, n.repulsionForce),
         FMul(n.outerMask, n.interactionForce))

\* 0 < distanceSquared < rMax^2
InRange(n) ==
    FLt(FZero, n.distanceSquared) /\ FLt(n.distanceSquared, rMaxSquared)

\* C13: particle j contributes a non-zero term to the force on particle i only
\* if 0 < distanceSquared < rMax^2, and every j with 0 < distanceSquared <
\* rMax^2 is active and contributes its zone force; j = i, a coincident
\* particle and a particle at or beyond rMax contribute exactly zero
ActiveInRange ==
    steps > 0 =>
        \A i \in 1..Len(last.posX) : \A j \in 1..Len(last.posX) :
           /\ last.neighbors[i][j].totalForce # FZero =>
                  InRange(last.neighbors[i][j])
           /\ InRange(last.neighbors[i][j]) =>
                  /\ last.neighbors[i][j].activeMask = FOne
                  /\ last.neighbors[i][j].totalForce =
                         ZoneForce(last.neighbors[i][j])
           /\ ~InRange(last.neighbors[i][j]) =>
                  last.neighbors[i][j].totalForce = FZero
           /\ i = j => last.neighbors[i][j].totalForce = FZero

\* C14: for every ordered pair, innerMask and outerMask are 0 or 1 and never
\* both 1; exactly one of them is 1 when normalizedDistance < 1, both are 0
\* when normalizedDistance >= 1; an active pair contributes through exactly
\* one zone formula
ZoneExclusivity ==
    steps > 0 =>
        \A i \in 1..Len(last.posX) : \A j \in 1..Len(last.posX) :
           /\ last.neighbors[i][j].innerMask \in {FZero, FOne}
           /\ last.neighbors[i][j].outerMask \in {FZero, FOne}
           /\ ~(/\ last.neighbors[i][j].innerMask = FOne
                /\ last.neighbors[i][j].outerMask = FOne)
           /\ FLt(last.neighbors[i][j].normalizedDistance, FOne) =>
                  FAdd(last.neighbors[i][j].innerMask,
                       last.neighbors[i][j].outerMask) = FOne
           /\ ~FLt(last.neighbors[i][j].normalizedDistance, FOne) =>
                  /\ last.neighbors[i][j].innerMask = FZero
                  /\ last.neighbors[i][j].outerMask = FZero
           /\ last.neighbors[i][j].activeMask = FOne =>
                  last.neighbors[i][j].totalForce =
                     IF last.neighbors[i][j].innerMask = FOne
                     THEN last.neighbors[i][j].repulsionForce
                     ELSE last.neighbors[i][j].interactionForce

\* a call that saw an active pair inside the repulsion zone, where the outer
\* formula is not 0 either, and the pair contributed the repulsion alone
BothFormulasNonZero ==
    /\ steps > 0
    /\ Len(last.posX) = 2
    /\ last.neighbors[1][2].activeMask = FOne
    /\ last.neighbors[1][2].innerMask = FOne
    /\ last.neighbors[1][2].outerMask = FZero
    /\ last.neighbors[1][2].interactionForce # FZero
    /\ last.neighbors[1][2].totalForce = last.neighbors[1][2].repulsionForce
    /\ last.neighbors[1][2].totalForce # FZero

----------------------------------------------------------------------------
\* The order of the statements

\* C15: within one call the force totals of all particles are computed from
\* the positions at entry: no position and no velocity changes while the loop
\* over i runs, whatever the order in which it visits the particles, and the
\* integration starts from force totals that are those of the whole store at
\* entry and leaves the result of the call taken as one step
ForcePrecedesIntegration ==
    [][/\ loop'.active => UNCHANGED <<posX, posY, velX, velY>>
       /\ (loop.active /\ ~loop'.active) =>
              /\ Visited = 1..Len(posX)
              /\ loop.forceX =
                     Forces(Neighbors(posX, posY, species, FInt(screenWidth),
                                      FInt(screenHeight)), "x")
              /\ loop.forceY =
                     Forces(Neighbors(posX, posY, species, FInt(screenWidth),
                                      FInt(screenHeight)), "y")
              /\ \A k \in 1..Len(posX) :
                    /\ velX'[k] =
                          FMul(Accelerate(velX[k], loop.forceX[k],
                                          loop.deltaTime),
                               SpeedScale(Accelerate(velX[k], loop.forceX[k],
                                                     loop.deltaTime),
                                          Accelerate(velY[k], loop.forceY[k],
                                                     loop.deltaTime)))
                    /\ posX'[k] = Move(posX[k], velX'[k], loop.deltaTime,
                                       FInt(screenWidth))
                    /\ posY'[k] = Move(posY[k], velY'[k], loop.deltaTime,
                                       FInt(screenHeight))]_vars

\* a finished call whose loop visited particle 2 before particle 1, with a
\* force on both and both particles moved
VisitedBackwards ==
    /\ steps > 0
    /\ ~loop.active
    /\ loop.order = <<2, 1>>
    /\ last.forceX[1] # FZero
    /\ last.forceX[2] # FZero
    /\ posX[1] # last.posX[1]
    /\ posX[2] # last.posX[2]

----------------------------------------------------------------------------
\* The integration

\* C16: in each call the velocity of every particle before the speed cap is
\* vel * (1 - friction) + force * deltaTime, the friction factor applied once
\* whatever deltaTime is; with deltaTime = 0 and a speed within the cap every
\* velocity component after the call is (1 - friction) times what it was
VelocityUpdate ==
    steps > 0 =>
        \A k \in 1..Len(last.velX) :
           /\ last.accX[k] =
                  FAdd(FMul(last.velX[k], FSub(FOne, friction)),
                       FMul(last.forceX[k], last.deltaTime))
           /\ last.accY[k] =
                  FAdd(FMul(last.velY[k], FSub(FOne, friction)),
                       FMul(last.forceY[k], last.deltaTime))
           /\ (/\ last.deltaTime = FZero
               /\ FLe(Speed(last.velX[k], last.velY[k]), maxSpeed)) =>
                  /\ velX[k] = FMul(last.velX[k], FSub(FOne, friction))
                  /\ velY[k] = FMul(last.velY[k], FSub(FOne, friction))

\* a call with deltaTime = 0 on a moving pair that exerts a force: the force
\* added nothing and the velocity decayed by the friction factor
FrictionWithoutTime ==
    /\ steps >= 2
    /\ Len(last.velX) = 2
    /\ last.deltaTime = FZero
    /\ last.velX[1] # FZero
    /\ last.forceX[1] # FZero
    /\ last.accX[1] = FMul(last.velX[1], FSub(FOne, friction))
    /\ velX[1] = last.accX[1]
    /\ velX[1] # last.velX[1]

\* the velocity <<vX, vY>> points the way <<aX, aY>> does: no component has
\* changed sign, grown, or become non-zero
SameDirection(vX, vY, aX, aY) ==
    /\ Sgn(vX[1]) = Sgn(aX[1]) /\ Sgn(vY[1]) = Sgn(aY[1])
    /\ FLe(FAbs(vX), FAbs(aX)) /\ FLe(FAbs(vY), FAbs(aY))

\* the speed of <<vX, vY>> is maxSpeed, within tolerance
AtMaxSpeed(vX, vY, tolerance) ==
    /\ FLe(FSub(maxSpeed, tolerance), Speed(vX, vY))
    /\ FLe(Speed(vX, vY), FAdd(maxSpeed, tolerance))

\* what the speed cap does to every particle, the speed of a capped particle
\* being maxSpeed within tolerance
CapWithin(tolerance) ==
    steps > 0 =>
        \A k \in 1..Len(velX) :
           /\ FLt(FZero, last.speedScale[k])
           /\ FLe(last.speedScale[k], FOne)
           /\ last.speedScale[k] =
                  FMin(FDiv(maxSpeed, Speed(last.accX[k], last.accY[k])), FOne)
           /\ velX[k] = FMul(last.accX[k], last.speedScale[k])
           /\ velY[k] = FMul(last.accY[k], last.speedScale[k])
           /\ FLe(Speed(last.accX[k], last.accY[k]), maxSpeed) =>
                  /\ velX[k] = last.accX[k]
                  /\ velY[k] = last.accY[k]
           /\ FLt(maxSpeed, Speed(last.accX[k], last.accY[k])) =>
                  /\ SameDirection(velX[k], velY[k], last.accX[k], last.accY[k])
                  /\ AtMaxSpeed(velX[k], velY[k], tolerance)

\* C17: the scale factor min(maxSpeed / speed, 1) is in (0, 1]; a particle
\* whose speed after friction and force is at most maxSpeed, a particle at
\* rest included, keeps its velocity; a faster particle keeps its direction
\* and gets a speed of maxSpeed within four units in the last place
CapNeverAmplifies == CapWithin(SpeedTolerance)

\* C17 as stated: the speed of a capped particle is exactly maxSpeed
CapToExactlyMaxSpeed == CapWithin(FZero)

\* a call that capped a particle moving along both axes
CappedAndKept ==
    /\ steps > 0
    /\ FLt(maxSpeed, Speed(last.accX[1], last.accY[1]))
    /\ last.accX[1] # FZero /\ last.accY[1] # FZero
    /\ FLt(last.speedScale[1], FOne)
    /\ FLt(FAbs(velX[1]), FAbs(last.accX[1]))
    /\ AtMaxSpeed(velX[1], velY[1], SpeedTolerance)

----------------------------------------------------------------------------
\* The zone formulas

\* C18: for every pair of distinct particles inside the repulsion zone,
\* 0 < distance and normalizedDistance < beta, the force on i due to j is
\* (normalizedDistance / beta - 1) * repulsionScale, negative, not below
\* -repulsionScale, and the same whatever the species of i and of j are
InnerRepulsion ==
    steps > 0 =>
        \A i \in 1..Len(last.posX) : \A j \in 1..Len(last.posX) :
           (/\ FLt(FZero, last.neighbors[i][j].distanceSquared)
            /\ FLt(last.neighbors[i][j].normalizedDistance, beta)) =>
              /\ last.neighbors[i][j].totalForce =
                     FMul(FSub(FMul(last.neighbors[i][j].normalizedDistance,
                                    inverseBeta), FOne), repulsionScale)
              /\ FLt(last.neighbors[i][j].totalForce, FZero)
              /\ FLe(FNeg(repulsionScale), last.neighbors[i][j].totalForce)
              /\ \A si \in 0..(numSpecies - 1) : \A sj \in 0..(numSpecies - 1) :
                    Neighbor(last.neighbors[i][j].deltaX,
                             last.neighbors[i][j].deltaY, si, sj).totalForce =
                       last.neighbors[i][j].totalForce

\* the midpoint of the interaction zone, (1 + beta) / 2
ZoneMidpoint == FDiv(FAdd(FOne, beta), FInt(2))

\* the wave of every pair with normalizedDistance in [beta, 1] is at least
\* -tolerance and at most 1, is 1 at the midpoint, and the outer-zone
\* contribution has the sign of the matrix coefficient unless the wave is
\* below 0
EnvelopeWithin(tolerance) ==
    steps > 0 =>
        \A i \in 1..Len(last.posX) : \A j \in 1..Len(last.posX) :
           (/\ FLe(beta, last.neighbors[i][j].normalizedDistance)
            /\ FLe(last.neighbors[i][j].normalizedDistance, FOne)) =>
              /\ FLe(FNeg(tolerance), last.neighbors[i][j].triangleWave)
              /\ FLe(last.neighbors[i][j].triangleWave, FOne)
              /\ last.neighbors[i][j].normalizedDistance = ZoneMidpoint =>
                     last.neighbors[i][j].triangleWave = FOne
              /\ last.neighbors[i][j].interactionForce =
                     FMul(last.neighbors[i][j].matrixValues,
                          last.neighbors[i][j].triangleWave)
              /\ \/ Sgn(last.neighbors[i][j].interactionForce[1]) =
                        Sgn(last.neighbors[i][j].matrixValues[1])
                 \/ last.neighbors[i][j].triangleWave = FZero
                 \/ /\ tolerance # FZero
                    /\ FLt(last.neighbors[i][j].triangleWave, FZero)

\* C19: for every normalizedDistance in [beta, 1] the wave is at most 1 and,
\* within two float spacings at 1, at least 0, and it is 1 at the midpoint
\* (1 + beta) / 2; the outer-zone contribution has the sign of the matrix
\* coefficient wherever the wave is not below 0
TriangleEnvelope == EnvelopeWithin(ZoneTolerance)

\* C19 as stated: the wave lies in [0, 1], is exactly 1 at the midpoint and
\* never negative, the contribution always has the sign of the coefficient
TriangleEnvelopeExact == EnvelopeWithin(FZero)

\* a call that saw a pair at the midpoint of the interaction zone, where the
\* wave is 1 and the contribution is the matrix coefficient times forceScale
AtZoneMidpoint ==
    /\ steps > 0
    /\ Len(last.posX) = 2
    /\ last.species = <<0, 1>>
    /\ last.neighbors[1][2].normalizedDistance = ZoneMidpoint
    /\ last.neighbors[1][2].triangleWave = FOne
    /\ last.neighbors[1][2].interactionForce = MatrixValue(0, 1)
    /\ FLt(FZero, last.neighbors[1][2].interactionForce)
    /\ last.neighbors[1][2].totalForce = last.neighbors[1][2].interactionForce

\* C20: for every zone radii with rMin <= rMax, rMin = rMax included, no
\* division by zero reaches the force: totalForce and the term added to
\* forceX are finite numbers for every pair
ForcesWellDefined ==
    tuning.evaluated =>
        /\ XLe(tuning.rMin, tuning.rMax)
        /\ Finite(tuning.totalForce)
        /\ Finite(tuning.forceX)

----------------------------------------------------------------------------
\* The store after initSimulation

\* C21: after initSimulation the particle of index k has species
\* k / perSpecies, every species lies in [0, numSpecies), the particles of a
\* species are contiguous, every species owns exactly perSpecies particles,
\* and every velocity component is 0
SpeciesBlocks ==
    (pc = "running" /\ steps = 0) =>
        /\ Len(species) = numParticles
        /\ \A k \in 1..numParticles :
              /\ species[k] = (k - 1) \div perSpecies
              /\ species[k] \in 0..(numSpecies - 1)
              /\ velX[k] = FZero
              /\ velY[k] = FZero
        /\ \A i \in 1..numParticles : \A j \in i..numParticles :
              \A k \in j..numParticles :
                 species[i] = species[k] => species[j] = species[i]
        /\ \A s \in 0..(numSpecies - 1) :
              Cardinality({k \in 1..numParticles : species[k] = s}) =
                 perSpecies

\* a store fresh from initSimulation, particles placed, the first block
\* ending at index perSpecies - 1 and the last species ending the array
FreshBlocks ==
    /\ pc = "running"
    /\ steps = 0
    /\ posX[1] # FZero
    /\ posX[1] # posX[2]
    /\ species[1] = 0
    /\ species[perSpecies] = 0
    /\ species[perSpecies + 1] = 1
    /\ species[numParticles] = numSpecies - 1

----------------------------------------------------------------------------
\* The modes of the toolpath demo

\* the sliders with the input each one edits and the mode it belongs to
Edits ==
    {<<"width", "width", TRUE>>, <<"height", "height", TRUE>>,
     <<"spacing", "height_spacing", TRUE>>,
     <<"factor", "spiralizing_out_factor", FALSE>>,
     <<"length", "spiral_length", FALSE>>,
     <<"step", "spiral_step", FALSE>>}

LinearIsKind == state.linear <=> state.input.kind = "Linear"

ValuesInRange ==
    \A e \in Edits :
       /\ state.input[e[2]] >= Double(state[e[1]].min, state[e[1]])
       /\ state.input[e[2]] <= Double(state[e[1]].max, state[e[1]])

\* a call that changes an input found the mode of its slider active, left it
\* active, and had the slider held
OwnModeOnly ==
    \A e \in Edits :
       state'.input[e[2]] # state.input[e[2]] =>
          /\ state.linear = e[3] /\ state'.linear = e[3]
          /\ state'.input.kind = KindOf(e[3])
          /\ state'[e[1]].sliding

\* C22: after init_state and any sequence of handle_mouse calls, s.linear is
\* true exactly when s.input.kind is Kind::Linear, every input value lies
\* within the [min, max] of its slider, and a call changes an input value only
\* while the mode of its slider is the active one
ModeConsistency ==
    /\ [](LinearIsKind /\ ValuesInRange)
    /\ [][OwnModeOnly]_vars

\* after a click on the toggle, a press on the rectangle that the Width and
\* the Factor sliders share holds both sliders: Factor follows the pointer,
\* Width keeps the value it was constructed with
SpiralDrag ==
    /\ ~state.linear /\ state.input.kind = "Spiral"
    /\ state.width.sliding /\ state.factor.sliding
    /\ state.input.spiralizing_out_factor # init_state.input.spiralizing_out_factor
    /\ state.input.spiralizing_out_factor =
          updateSlider(state.factor, 0, TRUE, mouse)
    /\ state.input.width = init_state.input.width
    /\ state.input.width # updateSlider(state.width, 0, TRUE, mouse)

====
